---------------------------- MODULE Spec2Model ----------------------------
(* Model of the seqr metadata registries (lib/seqr/metadata.py), the      *)
(* writers (lib/seqr/io.py) and the train/holdout group assigner          *)
(* (scripts/rgp/rgp_group_assigner.py).                                   *)
(*                                                                        *)
(* A pandas DataFrame is a sequence of rows (records); a missing cell     *)
(* (NaN / None) is the value NaN.  An operation that can raise returns a  *)
(* record with an "err" field naming the exception ("" = no exception).   *)
EXTENDS Integers, Sequences, FiniteSets, TLC

VARIABLES
    pc,           \* position of the running program
    indiv,        \* SeqrSubjects.df: the subject registry's rows
    indiv_in,     \* the rows of the registry as main handed it to filter_indiv
    tags,         \* SeqrTags.df: the tag registry's rows
    samples,      \* parse_samples(samples) or None: [given, ids]
    history,      \* the history file or None: [given, rows]
    assignments,  \* assignments_df of main
    tagQueue,     \* the tags the loop of main has still to visit
    output,       \* the file main wrote (rows of cells)
    call,         \* the parse call made: [kind, tables], kind "subjects" or "tags"
    result,       \* what the call just made on a registry returned or raised
    written       \* the file the call just made wrote: [kind, families, content]

vars == <<pc, indiv, indiv_in, tags, samples, history, assignments, tagQueue,
          output, call, result, written>>

-----------------------------------------------------------------------------
(* Values *)

\* A missing cell: pandas NaN / Python None.
NaN == "NaN"

isna(v) == v = NaN

Range(s) == {s[i] : i \in 1..Len(s)}

\* Series.unique(): the distinct values, in order of first occurrence.
RECURSIVE unique(_)
unique(s) ==
    IF s = <<>> THEN <<>>
    ELSE LET init == unique(SubSeq(s, 1, Len(s) - 1))
             last == s[Len(s)]
         IN  IF last \in Range(init) THEN init ELSE Append(init, last)

\* str.split(sep) of a string given as the sequence of its pieces
\* (characters, or longer stretches without a separator): the parts between
\* the separators, at least one.
RECURSIVE split(_, _)
split(chars, sep) ==
    IF \A i \in 1..Len(chars) : chars[i] # sep THEN <<chars>>
    ELSE LET at == CHOOSE i \in 1..Len(chars) :
                       chars[i] = sep /\ \A j \in 1..(i - 1) : chars[j] # sep
         IN  <<SubSeq(chars, 1, at - 1)>>
                 \o split(SubSeq(chars, at + 1, Len(chars)), sep)

\* The string of a sequence of pieces.
RECURSIVE text(_)
text(chars) == IF chars = <<>> THEN "" ELSE Head(chars) \o text(Tail(chars))

TAGS_OF_INTEREST ==
    << "Known gene for phenotype",
       "Tier 1 - Novel gene and phenotype",
       "Tier 1 - Novel gene for known phenotype",
       "Tier 1 - Phenotype expansion",
       "Tier 1 - Novel mode of inheritance",
       "Tier 1 - Known gene, new phenotype",
       "Tier 2 - Novel gene and phenotype",
       "Tier 2 - Novel gene for known phenotype",
       "Tier 2 - Phenotype expansion",
       "Tier 2 - Phenotype not delineated",
       "Tier 2 - Known gene, new phenotype" >>

\* PROP_TRAIN = 0.5, as a fraction.
PROP_TRAIN == [num |-> 1, den |-> 2]

-----------------------------------------------------------------------------
(* SeqrTags *)

\* _get_tags_for_family with "tags = set(...)" in its loop instead of
\* tags.update(...): the tags of the last row of the family that has a cell.
_get_tags_for_family_last_row(tdf, family_id) ==
    LET rows == SelectSeq(tdf, LAMBDA r : r.family = family_id /\ ~isna(r.tags))
    IN  IF rows = <<>> THEN {}
        ELSE {text(part) : part \in Range(split(rows[Len(rows)].tags, "|"))}

\* SeqrTags._get_tags_for_family: the union of the "|"-split tags of the
\* family's rows; a row whose tags cell is missing is skipped.  The cell of a
\* row is NaN or the sequence of the pieces of its string, the separators
\* "|" among them.
_get_tags_for_family(tdf, family_id) ==
    UNION { IF isna(tdf[i].tags) THEN {}
            ELSE {text(part) : part \in Range(split(tdf[i].tags, "|"))} :
            i \in {j \in 1..Len(tdf) : tdf[j].family = family_id} }

\* The loop of lines 57-59 without its return: the last tag of interest that
\* is present.
RECURSIVE LastOfInterest(_, _)
LastOfInterest(order, present) ==
    IF order = <<>> THEN NaN
    ELSE IF order[Len(order)] \in present THEN order[Len(order)]
         ELSE LastOfInterest(SubSeq(order, 1, Len(order) - 1), present)

RECURSIVE FirstOfInterest(_, _)
FirstOfInterest(order, present) ==
    IF order = <<>> THEN NaN
    ELSE IF Head(order) \in present THEN Head(order)
         ELSE FirstOfInterest(Tail(order), present)

\* SeqrTags.get_highest_precedence_tag; None is NaN.
get_highest_precedence_tag(tdf, family_id) ==
    IF family_id \notin {tdf[i].family : i \in 1..Len(tdf)} THEN NaN
    ELSE LET present == _get_tags_for_family(tdf, family_id)
         IN  IF present = {} THEN NaN
             ELSE FirstOfInterest(TAGS_OF_INTEREST, present)

-----------------------------------------------------------------------------
(* SeqrSubjects *)

get_subjects(df) == [i \in 1..Len(df) |-> df[i].id]

\* get_families from the family list of the registry as it was parsed.
get_families_cached(df) ==
    unique([i \in 1..Len(indiv_in) |-> indiv_in[i].fam])

get_families(df) == unique([i \in 1..Len(df) |-> df[i].fam])

\* The result of an operation on the registry: the exception raised ("" for
\* none), the registry's rows afterwards and the value returned.
Ok(df, val) == [err |-> "", df |-> df, val |-> val]
Raised(e, df) == [err |-> e, df |-> df, val |-> NaN]

\* get_subjects_for_family without the check of line 120: no subjects for a
\* family that is not there.
get_subjects_for_family_unchecked(df, family_id) ==
    Ok(df, get_subjects(SelectSeq(df, LAMBDA r : r.fam = family_id)))

get_subjects_for_family(df, family_id) ==
    IF family_id \notin Range(get_families(df)) THEN Raised("ValueError", df)
    ELSE Ok(df, get_subjects(SelectSeq(df, LAMBDA r : r.fam = family_id)))

\* remove_subject that drops the rows by position: the row of the subject
\* and the rows after it.
remove_subject_and_rest(df, subject_id) ==
    IF subject_id \notin Range(get_subjects(df)) THEN Raised("ValueError", df)
    ELSE LET at == CHOOSE i \in 1..Len(df) : df[i].id = subject_id
         IN  Ok(SubSeq(df, 1, at - 1), NaN)

remove_subject(df, subject_id) ==
    IF subject_id \notin Range(get_subjects(df)) THEN Raised("ValueError", df)
    ELSE Ok(SelectSeq(df, LAMBDA r : r.id # subject_id), NaN)

\* remove_family that removes the first subject of the family only.
remove_family_first_subject(df, family_id) ==
    IF family_id \notin Range(get_families(df)) THEN Raised("ValueError", df)
    ELSE LET first == SelectSeq(df, LAMBDA r : r.fam = family_id)[1]
         IN  Ok(SelectSeq(df, LAMBDA r : r.id # first.id), NaN)

\* remove_family that appends the rows it keeps to the table instead of
\* replacing the table by them.
remove_family_appending(df, family_id) ==
    IF family_id \notin Range(get_families(df)) THEN Raised("ValueError", df)
    ELSE Ok(df \o SelectSeq(df, LAMBDA r : r.fam # family_id), NaN)

remove_family(df, family_id) ==
    IF family_id \notin Range(get_families(df)) THEN Raised("ValueError", df)
    ELSE Ok(SelectSeq(df, LAMBDA r : r.fam # family_id), NaN)

\* SeqrSubjects._get_string_field: the cell of the first row of the subject,
\* "" when it is missing.
\* _get_string_field that takes an absent subject for a missing value.
_get_string_field_blank(df, subject_id, field) ==
    LET found == SelectSeq(df, LAMBDA r : r.id = subject_id)
    IN  Ok(df, IF found = <<>> \/ isna(found[1][field]) THEN ""
               ELSE found[1][field])

_get_string_field(df, subject_id, field) ==
    IF subject_id \notin Range(get_subjects(df)) THEN Raised("ValueError", df)
    ELSE LET value == SelectSeq(df, LAMBDA r : r.id = subject_id)[1][field]
         IN  Ok(df, IF isna(value) THEN "" ELSE value)

is_affected(df, subject_id) ==
    LET got == _get_string_field(df, subject_id, "aff")
    IN  IF got.err # "" THEN got ELSE Ok(df, got.val = "Affected")

is_data_loaded(df, subject_id) ==
    LET got == _get_string_field(df, subject_id, "loaded")
    IN  IF got.err # "" THEN got ELSE Ok(df, got.val = "Yes")

get_sex(df, subject_id) == _get_string_field(df, subject_id, "sex")

get_family_id(df, subject_id) == _get_string_field(df, subject_id, "fam")

get_paternal_id(df, subject_id) == _get_string_field(df, subject_id, "pat")

get_maternal_id(df, subject_id) == _get_string_field(df, subject_id, "mat")

\* str.strip(): the white space at both ends goes.
RECURSIVE strip(_)
strip(chars) ==
    IF chars = <<>> THEN chars
    ELSE IF Head(chars) = " " THEN strip(Tail(chars))
    ELSE IF chars[Len(chars)] = " " THEN strip(SubSeq(chars, 1, Len(chars) - 1))
    ELSE chars

\* SeqrSubjects._parse_hpo_terms: the cell is "" or the sequence of the
\* characters of the field.
_parse_hpo_terms(hpo_terms) ==
    IF isna(hpo_terms) \/ hpo_terms = "" THEN <<>>
    ELSE LET terms == split(hpo_terms, "|")
         IN  [i \in 1..Len(terms) |-> strip(split(terms[i], "(")[1])]

get_hpo_terms_present(df, subject_id) ==
    LET got == _get_string_field(df, subject_id, "hpo")
    IN  IF got.err # "" THEN got ELSE Ok(df, _parse_hpo_terms(got.val))

-----------------------------------------------------------------------------
(* SeqrSubjects.parse and SeqrTags.parse *)

\* A table read by pandas.read_csv is [cols, rows]: the names of its columns
\* and its rows; a row holds NaN in a field whose column the table lacks, as
\* pandas.concat fills it.
SubjectColumns ==
    {"Family ID", "Individual ID", "Paternal ID", "Maternal ID", "Sex",
     "Affected Status", "Individual Data Loaded", "HPO Terms (present)"}

TagColumns == {"family", "tags"}

\* pandas.DataFrame().
EmptyFrame == [cols |-> {}, rows |-> <<>>]

\* DataFrame.empty: an axis of length 0.
empty(df) == df.cols = {} \/ df.rows = <<>>

\* pandas.concat([a, b], ignore_index=True).
concat(a, b) == [cols |-> a.cols \cup b.cols, rows |-> a.rows \o b.rows]

\* Lines 39-42 and 98-101: the tables of the paths are read and concatenated;
\* a frame that is still empty is replaced by the next table.
RECURSIVE ReadAll(_, _)
ReadAll(full_df, paths) ==
    IF paths = <<>> THEN full_df
    ELSE ReadAll(IF ~empty(full_df) THEN concat(full_df, Head(paths))
                 ELSE Head(paths),
                 Tail(paths))

\* DataFrame.duplicated(subset=["Individual ID"]): the rows after the first
\* of their Individual ID.
duplicated(rows) ==
    {i \in 1..Len(rows) : \E j \in 1..(i - 1) : rows[j].id = rows[i].id}

\* drop_duplicates keeping the last row of each Individual ID.
drop_duplicates_keep_last(rows) ==
    LET kept == {i \in 1..Len(rows) :
                    \A j \in (i + 1)..Len(rows) : rows[j].id # rows[i].id}
        at == SelectSeq([i \in 1..Len(rows) |-> i], LAMBDA i : i \in kept)
    IN  [k \in 1..Len(at) |-> rows[at[k]]]

\* DataFrame.drop_duplicates(subset=["Individual ID"]): the first row of
\* each Individual ID is kept.
drop_duplicates(rows) ==
    LET at == SelectSeq([i \in 1..Len(rows) |-> i],
                        LAMBDA i : i \notin duplicated(rows))
    IN  [k \in 1..Len(at) |-> rows[at[k]]]

\* _validate_input_df of either class: every required column is there.
_validate_input_df(df, required) == required \subseteq df.cols

\* SeqrSubjects.parse: [err, val], val the rows of the registry returned.
SeqrSubjects_parse(subject_paths) ==
    LET full_df == ReadAll(EmptyFrame, subject_paths)
    IN  IF ~empty(full_df) /\ "Individual ID" \notin full_df.cols
        THEN [err |-> "KeyError", val |-> NaN]
        ELSE LET rows == IF duplicated(full_df.rows) # {}
                         THEN drop_duplicates(full_df.rows)
                         ELSE full_df.rows
             IN  IF _validate_input_df(full_df, SubjectColumns)
                 THEN [err |-> "", val |-> rows]
                 ELSE [err |-> "ValueError", val |-> NaN]

\* SeqrTags.parse: [err, val], val the rows of the registry returned.
SeqrTags_parse(tag_paths) ==
    LET full_df == ReadAll(EmptyFrame, tag_paths)
    IN  IF _validate_input_df(full_df, TagColumns)
        THEN [err |-> "", val |-> full_df.rows]
        ELSE [err |-> "ValueError", val |-> NaN]

-----------------------------------------------------------------------------
(* SeqrTags as the writers use it (IProvideTagInfo) *)

\* SeqrTags.get_families: the distinct families, in order of first occurrence.
tag_get_families(tdf) == unique([i \in 1..Len(tdf) |-> tdf[i].family])

\* SeqrTags.get_variants_for_family: the variants of the family's rows, none
\* for a family without rows.
get_variants_for_family(tdf, family_id) ==
    LET rows == SelectSeq(tdf, LAMBDA r : r.family = family_id)
    IN  unique([i \in 1..Len(rows) |-> rows[i].variant])

\* get_tags_for_family_and_variant that takes a family without rows for a
\* family without tags.
get_tags_for_family_and_variant_lenient(tdf, family_id, variant_id) ==
    LET rows == SelectSeq(tdf, LAMBDA r : /\ r.family = family_id
                                           /\ r.variant = variant_id
                                           /\ ~isna(r.tags))
    IN  Ok(tdf, IF rows = <<>> THEN <<>>
                ELSE LET parts == split(rows[1].tags, "|")
                     IN  [i \in 1..Len(parts) |-> text(parts[i])])

\* SeqrTags.get_tags_for_family_and_variant: ValueError for a family without
\* rows; else the tags of the rows of the variant, none for a missing cell.
get_tags_for_family_and_variant(tdf, family_id, variant_id) ==
    IF \A i \in 1..Len(tdf) : tdf[i].family # family_id
    THEN Raised("ValueError", tdf)
    ELSE LET rows == SelectSeq(tdf, LAMBDA r : /\ r.family = family_id
                                               /\ r.variant = variant_id
                                               /\ ~isna(r.tags))
         IN  Ok(tdf, IF rows = <<>> THEN <<>>
                     ELSE LET parts == split(rows[1].tags, "|")
                          IN  [i \in 1..Len(parts) |-> text(parts[i])])

-----------------------------------------------------------------------------
(* lib/seqr/io.py: the writers *)

\* A restriction (families_to_write, tags_to_write) is None or a list:
\* [given, items].
Unrestricted == [given |-> FALSE, items |-> {}]

\* The test written as "if families_to_write and ...": an empty list passes
\* for None.
Allowed_truthy(restriction, item) ==
    \/ ~restriction.given
    \/ restriction.items = {}
    \/ item \in restriction.items

Allowed(restriction, item) == ~restriction.given \/ item \in restriction.items

\* _encode_sex with the codes of the sexes exchanged.
_encode_sex_exchanged(sex) ==
    IF sex = "Male" THEN "2" ELSE IF sex = "Female" THEN "1" ELSE "0"

_encode_sex(sex) ==
    IF sex = "Male" THEN "1" ELSE IF sex = "Female" THEN "2" ELSE "0"

_encode_affected(affected) == IF affected THEN "2" ELSE "1"

_encode_parent(parent) == IF parent # "" THEN parent ELSE "0"

\* PedigreeWriter._get_pedigree_line: the six fields that are joined by tabs.
_get_pedigree_line(df, subject) ==
    << get_family_id(df, subject).val,
       subject,
       _encode_parent(get_paternal_id(df, subject).val),
       _encode_parent(get_maternal_id(df, subject).val),
       _encode_sex(get_sex(df, subject).val),
       _encode_affected(is_affected(df, subject).val) >>

\* PedigreeWriter.write without the test of lines 77-81: a line for every
\* subject.
PedigreeWriter_write_all(df, families_to_write) ==
    [i \in 1..Len(df) |-> _get_pedigree_line(df, df[i].id)]

\* PedigreeWriter.write: the lines of the file.
PedigreeWriter_write(df, families_to_write) ==
    LET subjects == SelectSeq(get_subjects(df),
                        LAMBDA x : Allowed(families_to_write,
                                           get_family_id(df, x).val))
    IN  [i \in 1..Len(subjects) |-> _get_pedigree_line(df, subjects[i])]

\* HpoWriter.write without the test of lines 122-126: every subject.
HpoWriter_write_all(df, families_to_write) ==
    [x \in Range(get_subjects(df)) |->
        [family_id |-> get_family_id(df, x).val,
         hpo_terms |-> get_hpo_terms_present(df, x).val]]

\* HpoWriter.write: the object of the file, keyed by subject.
HpoWriter_write(df, families_to_write) ==
    LET subjects == {x \in Range(get_subjects(df)) :
                        Allowed(families_to_write, get_family_id(df, x).val)}
    IN  [x \in subjects |->
            [family_id |-> get_family_id(df, x).val,
             hpo_terms |-> get_hpo_terms_present(df, x).val]]

\* Lines 174-179 for one family: the tags kept of each variant.
KeptTags(tdf, family, variant, tags_to_write) ==
    SelectSeq(get_tags_for_family_and_variant(tdf, family, variant).val,
              LAMBDA t : Allowed(tags_to_write, t))

\* ExternalLabelWriter.write without the test of line 178: every variant of
\* an included family, whatever is left of its tags.
ExternalLabelWriter_write_empty(tdf, families_to_write, tags_to_write) ==
    LET families == {f \in Range(tag_get_families(tdf)) :
                        Allowed(families_to_write, f)}
    IN  [f \in families |->
            [v \in Range(get_variants_for_family(tdf, f)) |->
                KeptTags(tdf, f, v, tags_to_write)]]

\* ExternalLabelWriter.write: the object of the file, keyed by family and
\* then by variant.
ExternalLabelWriter_write(tdf, families_to_write, tags_to_write) ==
    LET Variants(f) == {v \in Range(get_variants_for_family(tdf, f)) :
                           KeptTags(tdf, f, v, tags_to_write) # <<>>}
        families == {f \in Range(tag_get_families(tdf)) :
                        Allowed(families_to_write, f) /\ Variants(f) # {}}
    IN  [f \in families |->
            [v \in Variants(f) |-> KeptTags(tdf, f, v, tags_to_write)]]

-----------------------------------------------------------------------------
(* rgp_group_assigner.filter_indiv *)

\* Lines 57-59: over a snapshot of the subjects, remove each subject whose
\* data is not loaded.  st is [err, df]; an exception ends the function.
RECURSIVE DropNotLoaded(_, _)
DropNotLoaded(st, subjects) ==
    IF st.err # "" \/ subjects = <<>> THEN st
    ELSE LET loaded == is_data_loaded(st.df, Head(subjects))
             next == IF loaded.err # "" THEN [err |-> loaded.err, df |-> st.df]
                     ELSE IF loaded.val THEN st
                     ELSE LET rm == remove_subject(st.df, Head(subjects))
                          IN  [err |-> rm.err, df |-> rm.df]
         IN  DropNotLoaded(next, Tail(subjects))

\* Lines 63-67: whether a subject of the list is affected.
AnyAffected(df, subjects) ==
    \E i \in 1..Len(subjects) :
        LET affected == is_affected(df, subjects[i])
        IN  affected.err = "" /\ affected.val

\* Lines 61-69: over a snapshot of the families, remove each family without
\* an affected subject.
RECURSIVE DropUnaffectedFamilies(_, _)
DropUnaffectedFamilies(st, families) ==
    IF st.err # "" \/ families = <<>> THEN st
    ELSE LET members == get_subjects_for_family(st.df, Head(families))
             next == IF members.err # "" THEN [err |-> members.err, df |-> st.df]
                     ELSE IF AnyAffected(st.df, members.val) THEN st
                     ELSE LET rm == remove_family(st.df, Head(families))
                          IN  [err |-> rm.err, df |-> rm.df]
         IN  DropUnaffectedFamilies(next, Tail(families))

\* Lines 75-79 removing the subjects that are not in the sample list, not
\* their families.
DropUnsampledSubjects(st, families, sample_ids) ==
    [err |-> st.err,
     df |-> SelectSeq(st.df, LAMBDA r : r.id \in sample_ids)]

\* Lines 75-79: over a snapshot of the families, remove each family with a
\* subject that is not in the sample list.
RECURSIVE DropUnsampledFamilies(_, _, _)
DropUnsampledFamilies(st, families, sample_ids) ==
    IF st.err # "" \/ families = <<>> THEN st
    ELSE LET members == get_subjects_for_family(st.df, Head(families))
             next == IF members.err # "" THEN [err |-> members.err, df |-> st.df]
                     ELSE IF Range(members.val) \subseteq sample_ids THEN st
                     ELSE LET rm == remove_family(st.df, Head(families))
                          IN  [err |-> rm.err, df |-> rm.df]
         IN  DropUnsampledFamilies(next, Tail(families), sample_ids)

\* filter_indiv with its first two loops in the other order: the families
\* are tested for an affected subject before the subjects without data go.
filter_indiv_affected_first(df, samples_df) ==
    LET affected == DropUnaffectedFamilies([err |-> "", df |-> df],
                                           get_families(df))
        loaded == DropNotLoaded(affected, get_subjects(affected.df))
    IN  IF samples_df.given /\ loaded.err = ""
        THEN DropUnsampledFamilies(loaded, get_families(loaded.df),
                                   samples_df.ids)
        ELSE loaded

\* filter_indiv with the snapshot of the families of line 61 taken before
\* the loop of lines 57-59 has removed the subjects without data.
filter_indiv_early_snapshot(df, samples_df) ==
    LET loaded == DropNotLoaded([err |-> "", df |-> df], get_subjects(df))
        affected == DropUnaffectedFamilies(loaded, get_families(df))
    IN  IF samples_df.given /\ affected.err = ""
        THEN DropUnsampledFamilies(affected, get_families(affected.df),
                                   samples_df.ids)
        ELSE affected

filter_indiv(df, samples_df) ==
    LET loaded == DropNotLoaded([err |-> "", df |-> df], get_subjects(df))
        affected == DropUnaffectedFamilies(loaded, get_families(loaded.df))
    IN  IF samples_df.given /\ affected.err = ""
        THEN DropUnsampledFamilies(affected, get_families(affected.df),
                                   samples_df.ids)
        ELSE affected

-----------------------------------------------------------------------------
(* rgp_group_assigner.main *)

\* Series.fillna(value).
fillna(v, value) == IF isna(v) THEN value ELSE v

\* Lines 94-101: one row per family of the filtered registry, no group, the
\* family's highest precedence tag or "untagged".
InitialAssignments(df, tdf) ==
    LET families == get_families(df)
    IN  [i \in 1..Len(families) |->
            [family_id |-> families[i],
             group |-> NaN,
             tag |-> fillna(get_highest_precedence_tag(tdf, families[i]),
                            "untagged")]]

\* The cells pandas.read_csv reads as missing.
NaValues ==
    {"", "#N/A", "#N/A N/A", "#NA", "-1.#IND", "-1.#QNAN", "-NaN", "-nan",
     "1.#IND", "1.#QNAN", "<NA>", "N/A", "NA", "NULL", "NaN", "None", "n/a",
     "nan", "null"}

\* pandas.read_csv of a history file: family_id is the index.
read_csv(rows) ==
    [i \in 1..Len(rows) |->
        [family_id |-> rows[i].family_id,
         group |-> IF rows[i].group \in NaValues THEN NaN ELSE rows[i].group,
         tag |-> IF rows[i].tag \in NaValues THEN NaN ELSE rows[i].tag]]

\* DataFrame.to_csv: a missing cell is written as the empty string.
to_csv(adf) ==
    [i \in 1..Len(adf) |->
        [family_id |-> adf[i].family_id,
         group |-> IF isna(adf[i].group) THEN "" ELSE adf[i].group,
         tag |-> IF isna(adf[i].tag) THEN "" ELSE adf[i].tag]]

\* An outer join in place of update: the rows of other whose family adf lacks
\* are appended.
update_outer(adf, other) ==
    [i \in 1..Len(adf) |->
        LET match == SelectSeq(other,
                               LAMBDA h : h.family_id = adf[i].family_id)
        IN  IF match = <<>> THEN adf[i]
            ELSE [family_id |-> adf[i].family_id,
                  group |-> fillna(match[1].group, adf[i].group),
                  tag |-> fillna(match[1].tag, adf[i].tag)]]
    \o SelectSeq(other,
                 LAMBDA h : \A i \in 1..Len(adf) : adf[i].family_id # h.family_id)

\* DataFrame.update(other, overwrite=False): only the missing cells of adf
\* are filled.
update_missing_only(adf, other) ==
    [i \in 1..Len(adf) |->
        LET match == SelectSeq(other,
                               LAMBDA h : h.family_id = adf[i].family_id)
        IN  IF match = <<>> THEN adf[i]
            ELSE [family_id |-> adf[i].family_id,
                  group |-> fillna(adf[i].group, match[1].group),
                  tag |-> fillna(adf[i].tag, match[1].tag)]]

\* update of the group column only: the tag of the history is left aside.
update_group_only(adf, other) ==
    [i \in 1..Len(adf) |->
        LET match == SelectSeq(other,
                               LAMBDA h : h.family_id = adf[i].family_id)
        IN  IF match = <<>> THEN adf[i]
            ELSE [adf[i] EXCEPT !.group = fillna(match[1].group, adf[i].group)]]

\* DataFrame.update(other, overwrite=True): other is aligned on the index of
\* adf; a cell of adf is overwritten by the cell of other's row of the same
\* family when that cell is not missing.
update(adf, other) ==
    [i \in 1..Len(adf) |->
        LET match == SelectSeq(other,
                               LAMBDA h : h.family_id = adf[i].family_id)
        IN  IF match = <<>> THEN adf[i]
            ELSE [family_id |-> adf[i].family_id,
                  group |-> fillna(match[1].group, adf[i].group),
                  tag |-> fillna(match[1].tag, adf[i].tag)]]

\* Python's s[:n] and s[n:], n of either sign.
SliceStop(len, n) ==
    IF n < 0 THEN (IF len + n < 0 THEN 0 ELSE len + n)
    ELSE IF n > len THEN len ELSE n

SliceTo(s, n) == SubSeq(s, 1, SliceStop(Len(s), n))

SliceFrom(s, n) == SubSeq(s, SliceStop(Len(s), n) + 1, Len(s))

\* Line 114 with the rows that are not in train for the rows without a
\* group.
families_to_assign_unless_train(adf, tag) ==
    LET rows == SelectSeq(adf, LAMBDA r : r.group # "train" /\ r.tag = tag)
    IN  [i \in 1..Len(rows) |-> rows[i].family_id]

\* Line 114 without the test of the group: every row of the tag.
families_to_assign_any_group(adf, tag) ==
    LET rows == SelectSeq(adf, LAMBDA r : r.tag = tag)
    IN  [i \in 1..Len(rows) |-> rows[i].family_id]

\* Line 114: the index of the rows of the tag that have no group yet.
families_to_assign(adf, tag) ==
    LET rows == SelectSeq(adf, LAMBDA r : isna(r.group) /\ r.tag = tag)
    IN  [i \in 1..Len(rows) |-> rows[i].family_id]

\* Line 117.
n_tagged_train(adf, tag) ==
    Len(SelectSeq(adf, LAMBDA r : r.group = "train" /\ r.tag = tag))

\* round(x * prop_train), halves going up, in place of int(x * prop_train).
IntTimes_rounding(x, prop_train) ==
    (2 * x * prop_train.num + prop_train.den) \div (2 * prop_train.den)

\* int(x * prop_train) for a count x and the fraction prop_train.
IntTimes(x, prop_train) == (x * prop_train.num) \div prop_train.den

\* Line 118 without the families that are in train already.
n_train_new_of_all(adf, tag, prop_train) ==
    IntTimes(Len(SelectSeq(adf, LAMBDA r : r.tag = tag)), prop_train)

\* Line 118.
n_train_new(adf, tag, prop_train) ==
    IntTimes(Len(SelectSeq(adf, LAMBDA r : r.tag = tag)), prop_train)
        - n_tagged_train(adf, tag)

\* DataFrame.loc[index, "group"] = value.
SetGroup(adf, index, value) ==
    [i \in 1..Len(adf) |->
        IF adf[i].family_id \in Range(index)
        THEN [adf[i] EXCEPT !.group = value] ELSE adf[i]]

\* Lines 117-120 without line 121: the rest of the shuffled rows is left.
AssignGroups_train_only(adf, tag, shuffled, prop_train) ==
    SetGroup(adf, SliceTo(shuffled, n_train_new(adf, tag, prop_train)), "train")

\* Lines 117-121 for one tag, given the shuffled index of line 115.
AssignGroups(adf, tag, shuffled, prop_train) ==
    LET n == n_train_new(adf, tag, prop_train)
    IN  SetGroup(SetGroup(adf, SliceTo(shuffled, n), "train"),
                 SliceFrom(shuffled, n), "holdout")

\* DataFrame.sample(frac=1): every order of the rows can come out.
RECURSIVE Shuffles(_)
Shuffles(S) ==
    IF S = {} THEN {<<>>}
    ELSE UNION {{<<x>> \o p : p \in Shuffles(S \ {x})} : x \in S}

-----------------------------------------------------------------------------
(* Inputs *)

\* The number of families of the cohort a chain of runs is checked with.
MaxFamilies == 3

\* The number of families of the cohort the quota is checked with.
QuotaFamilies == 5

\* The number of subjects of the registry the filter is checked with.
MaxSubjects == 3

\* The number of subjects of the registry the writers and the removals are
\* checked with.
RegistrySubjects == 2

\* The number of rows of the tag registry the label writer is checked with.
MaxTagRows == 2

\* The number of tables of a parse call, and of rows of one table.
MaxTables == 2

MaxRows == 1

\* The number of subjects of a registry that is queried and removed from.
AccessSubjects == 3

\* The number of subjects of a registry whose pedigree is read back.
PedigreeSubjects == 1

FamilyNames == <<"F1", "F2", "F3", "F4", "F5", "F6", "F7", "F8">>

SubjectNames ==
    <<"F1_3", "F2_3", "F3_3", "F4_3", "F5_3", "F6_3", "F7_3", "F8_3">>

SubjectRow(id, fam, aff, loaded) ==
    [id |-> id, fam |-> fam, pat |-> NaN, mat |-> NaN, sex |-> "Male",
     aff |-> aff, loaded |-> loaded, hpo |-> NaN]

TagRow(family, variant, cell) ==
    [family |-> family, variant |-> variant, tags |-> cell]

NoFile == [given |-> FALSE, rows |-> <<>>]

NoSamples == [given |-> FALSE, ids |-> {}]

\* Registries of n families of one data-loaded subject each, affected or not.
ProbandRegistries(n) ==
    { [i \in 1..n |-> SubjectRow(SubjectNames[i], FamilyNames[i], a[i], "Yes")] :
      a \in [1..n -> {"Affected", "Unaffected"}] }

\* Tag registries: the first k families have one variant, tagged with the
\* first tag of interest.
TagTables(n) ==
    { [i \in 1..k |-> TagRow(FamilyNames[i], "1-1-A-T", <<TAGS_OF_INTEREST[1]>>)] :
      k \in 0..n }

\* History files over n families: each family is absent, or has a group and
\* one of the tags, or has no group (an empty cell) and one of the loose tags.
HistoryFiles(n, tagValues, looseTags) ==
    LET NoRow == [group |-> "-", tag |-> "-"]
        Cells == {[group |-> g, tag |-> t] :
                  g \in {"train", "holdout"}, t \in tagValues}
                 \cup {[group |-> "", tag |-> t] : t \in looseTags}
    IN  { LET listed == SelectSeq([i \in 1..n |-> i], LAMBDA i : c[i] # NoRow)
          IN  [given |-> TRUE,
               rows |-> [j \in 1..Len(listed) |->
                            [family_id |-> FamilyNames[listed[j]],
                             group |-> c[listed[j]].group,
                             tag |-> c[listed[j]].tag]]] :
          c \in [1..n -> Cells \cup {NoRow}] }

\* Registries of n subjects in two families, each affected or not and with
\* its data loaded or not.
FilterRegistries(n) ==
    { [i \in 1..n |-> SubjectRow(SubjectNames[i], f[i], a[i], l[i])] :
      f \in [1..n -> {"F1", "F2"}],
      a \in [1..n -> {"Affected", "Unaffected"}],
      l \in [1..n -> {"Yes", "No"}] }

SampleLists(n) ==
    {NoSamples} \cup
    {[given |-> TRUE, ids |-> S] : S \in SUBSET {SubjectNames[i] : i \in 1..n}}

-----------------------------------------------------------------------------
(* The run of main *)

NoCall == [kind |-> "none", tables |-> <<>>]

NoResult == [err |-> "", val |-> NaN]

NothingWritten == [kind |-> "none", families |-> Unrestricted, content |-> <<>>]

\* main is entered with the registries parsed, before line 91.
Start(reg, tdf, samp, hist) ==
    /\ pc = "filter"
    /\ indiv = reg
    /\ indiv_in = reg
    /\ tags = tdf
    /\ samples = samp
    /\ history = hist
    /\ assignments = <<>>
    /\ tagQueue = <<>>
    /\ output = <<>>
    /\ call = NoCall
    /\ result = NoResult
    /\ written = NothingWritten

\* Line 91.
FilterIndiv ==
    /\ pc = "filter"
    /\ LET st == filter_indiv(indiv, samples)
       IN  /\ indiv' = st.df
           /\ pc' = IF st.err = "" THEN "build" ELSE "raised"
    /\ UNCHANGED <<indiv_in, tags, samples, history, assignments, tagQueue,
                   output, call, result, written>>

\* Lines 94-101, removing from the registry the families that have none of
\* the tags of interest.
BuildAssignments_dropping_untagged ==
    /\ pc = "build"
    /\ assignments' = InitialAssignments(indiv, tags)
    /\ indiv' = SelectSeq(indiv,
                    LAMBDA r : ~isna(get_highest_precedence_tag(tags, r.fam)))
    /\ pc' = "history"
    /\ UNCHANGED <<indiv_in, tags, samples, history, tagQueue, output, call,
                   result, written>>

\* Lines 94-101.
BuildAssignments ==
    /\ pc = "build"
    /\ assignments' = InitialAssignments(indiv, tags)
    /\ pc' = "history"
    /\ UNCHANGED <<indiv, indiv_in, tags, samples, history, tagQueue, output,
                   call, result, written>>

\* Lines 103-111: the history is laid over the assignments and the loop
\* over the tags starts.
AddHistory ==
    /\ pc = "history"
    /\ assignments' = IF history.given
                      THEN update(assignments, read_csv(history.rows))
                      ELSE assignments
    /\ tagQueue' = unique([i \in 1..Len(assignments') |-> assignments'[i].tag])
    /\ pc' = "assign"
    /\ UNCHANGED <<indiv, indiv_in, tags, samples, history, output, call,
                   result, written>>

\* Lines 111-124: one turn of the loop, for any outcome of the shuffle.
AssignTag ==
    /\ pc = "assign"
    /\ tagQueue # <<>>
    /\ \E shuffled \in
           Shuffles(Range(families_to_assign(assignments, Head(tagQueue)))) :
           assignments' =
               AssignGroups(assignments, Head(tagQueue), shuffled, PROP_TRAIN)
    /\ tagQueue' = Tail(tagQueue)
    /\ UNCHANGED <<pc, indiv, indiv_in, tags, samples, history, output, call,
                   result, written>>

\* Lines 128-130.
WriteOutput ==
    /\ pc = "assign"
    /\ tagQueue = <<>>
    /\ output' = to_csv(assignments)
    /\ pc' = "done"
    /\ UNCHANGED <<indiv, indiv_in, tags, samples, history, assignments,
                   tagQueue, call, result, written>>

\* The script is run again on a new export of the cohort, with the file it
\* wrote as --history.
Rerun ==
    /\ pc = "done"
    /\ history' = [given |-> TRUE, rows |-> output]
    /\ \E reg \in ProbandRegistries(MaxFamilies), tdf \in TagTables(MaxFamilies) :
           /\ indiv' = reg
           /\ indiv_in' = reg
           /\ tags' = tdf
    /\ pc' = "filter"
    /\ assignments' = <<>>
    /\ tagQueue' = <<>>
    /\ output' = <<>>
    /\ UNCHANGED <<samples, call, result, written>>

RunOnce ==
    \/ FilterIndiv
    \/ BuildAssignments
    \/ AddHistory
    \/ AssignTag
    \/ WriteOutput

\* A chain of runs over a cohort of MaxFamilies families, started with any
\* history file or none.
InitAssign ==
    \E reg \in ProbandRegistries(MaxFamilies), tdf \in TagTables(MaxFamilies),
       hist \in {NoFile} \cup
                HistoryFiles(MaxFamilies, {TAGS_OF_INTEREST[1], "untagged"},
                             {TAGS_OF_INTEREST[1]}) :
        Start(reg, tdf, NoSamples, hist)

NextAssign == RunOnce \/ Rerun

SpecAssign == InitAssign /\ [][NextAssign]_vars

\* The script is run again with the file it wrote as --history, on an export
\* in which every family that was eligible is eligible still.
RerunGrown ==
    /\ Rerun
    /\ Range(get_families(indiv))
           \subseteq Range(get_families(filter_indiv(indiv', samples).df))

\* A chain of runs over a growing cohort, the first without a history file.
InitGrowth ==
    \E reg \in ProbandRegistries(MaxFamilies), tdf \in TagTables(MaxFamilies) :
        Start(reg, tdf, NoSamples, NoFile)

NextGrowth == RunOnce \/ RerunGrown

SpecGrowth == InitGrowth /\ [][NextGrowth]_vars

\* One run over QuotaFamilies eligible, untagged families with any history.
InitQuota ==
    \E reg \in {r \in ProbandRegistries(QuotaFamilies) :
                   \A i \in 1..Len(r) : r[i].aff = "Affected"},
       hist \in {NoFile} \cup HistoryFiles(QuotaFamilies, {"untagged"}, {}) :
        Start(reg, <<>>, NoSamples, hist)

SpecQuota == InitQuota /\ [][RunOnce]_vars

\* One run over a registry of MaxSubjects subjects, with or without a
\* sample list.
InitFilter ==
    \E reg \in FilterRegistries(MaxSubjects), samp \in SampleLists(MaxSubjects) :
        Start(reg, <<>>, samp, NoFile)

SpecFilter == InitFilter /\ [][RunOnce]_vars
-----------------------------------------------------------------------------
(* The registries in use: writers and removals *)

\* Registries of n subjects in two families: an affected child with parents
\* and HPO terms or an unaffected founder, of any sex.
WriterRegistries(n) ==
    LET Child(id, fam, sex) ==
            [id |-> id, fam |-> fam, pat |-> "F0_1", mat |-> "F0_2",
             sex |-> sex, aff |-> "Affected", loaded |-> "Yes",
             hpo |-> <<"A", " ", "(", "x", ")", "|", " ", "B">>]
        Founder(id, fam, sex) ==
            [id |-> id, fam |-> fam, pat |-> NaN, mat |-> NaN,
             sex |-> sex, aff |-> "Unaffected", loaded |-> "Yes",
             hpo |-> NaN]
    IN  { [i \in 1..n |-> IF c[i] THEN Child(SubjectNames[i], f[i], x[i])
                          ELSE Founder(SubjectNames[i], f[i], x[i])] :
          f \in [1..n -> {"F1", "F2"}],
          x \in [1..n -> {"Male", "Female", "Unknown"}],
          c \in [1..n -> BOOLEAN] }

\* Tag registries of up to n rows: a family, a variant and a tags cell.
TagRegistries(n) ==
    LET Cells == << NaN,
                    <<TAGS_OF_INTEREST[1]>>,
                    <<TAGS_OF_INTEREST[2], "|", TAGS_OF_INTEREST[1]>>,
                    <<"Excluded">> >>
        Rows == {TagRow(f, v, Cells[c]) :
                 f \in {"F1", "F2"},
                 v \in {"1-1-A-T", "1-2-C-G"},
                 c \in 1..Len(Cells)}
    IN  UNION {[1..k -> Rows] : k \in 0..n}

FamilyLists ==
    {Unrestricted} \cup
    {[given |-> TRUE, items |-> S] : S \in SUBSET {"F1", "F2"}}

TagLists ==
    {Unrestricted} \cup
    {[given |-> TRUE, items |-> S] :
     S \in {{}, {TAGS_OF_INTEREST[1]}, {TAGS_OF_INTEREST[2]}}}

\* A registry of the kind has been parsed and no call has been made on it.
Ready(kind, reg, tdf) ==
    /\ pc = "ready"
    /\ indiv = reg
    /\ indiv_in = reg
    /\ tags = tdf
    /\ samples = NoSamples
    /\ history = NoFile
    /\ assignments = <<>>
    /\ tagQueue = <<>>
    /\ output = <<>>
    /\ call = [kind |-> kind, tables |-> <<>>]
    /\ result = NoResult
    /\ written = NothingWritten

\* The registry of the kind exists and the last call on it has returned.
InUse(kind) ==
    /\ pc \in {"ready", "wrote", "removed", "returned", "raised"}
    /\ call.kind = kind

\* PedigreeWriter(indiv, families).write(path), removing from the registry
\* the families it does not write.
WritePedigree_removing ==
    /\ InUse("subjects")
    /\ \E families \in FamilyLists :
           /\ written' = [kind |-> "pedigree", families |-> families,
                          content |-> PedigreeWriter_write(indiv, families)]
           /\ indiv' = SelectSeq(indiv, LAMBDA r : Allowed(families, r.fam))
    /\ pc' = "wrote"
    /\ result' = NoResult
    /\ UNCHANGED <<indiv_in, tags, samples, history, assignments,
                   tagQueue, output, call>>

\* PedigreeWriter(indiv, families).write(path).
WritePedigree ==
    /\ InUse("subjects")
    /\ \E families \in FamilyLists :
           written' = [kind |-> "pedigree", families |-> families,
                       content |-> PedigreeWriter_write(indiv, families)]
    /\ pc' = "wrote"
    /\ result' = NoResult
    /\ UNCHANGED <<indiv, indiv_in, tags, samples, history, assignments,
                   tagQueue, output, call>>

\* HpoWriter(indiv, families).write(path).
WriteHpo ==
    /\ InUse("subjects")
    /\ \E families \in FamilyLists :
           written' = [kind |-> "hpo", families |-> families,
                       content |-> HpoWriter_write(indiv, families)]
    /\ pc' = "wrote"
    /\ result' = NoResult
    /\ UNCHANGED <<indiv, indiv_in, tags, samples, history, assignments,
                   tagQueue, output, call>>

\* ExternalLabelWriter(tags, families, tag list).write(path).
WriteLabels ==
    /\ InUse("tags")
    /\ \E families \in FamilyLists, tag_list \in TagLists :
           written' = [kind |-> "labels", families |-> families,
                       tags_to_write |-> tag_list,
                       content |->
                           ExternalLabelWriter_write(tags, families, tag_list)]
    /\ pc' = "wrote"
    /\ result' = NoResult
    /\ UNCHANGED <<indiv, indiv_in, tags, samples, history, assignments,
                   tagQueue, output, call>>

\* What a call on the registry gave: the exception raised ("" for none), the
\* value returned, the method called and its argument.
Outcome(op, arg, got) ==
    [err |-> got.err, val |-> got.val, op |-> op, arg |-> arg]

\* indiv.remove_subject(s), for a subject the registry has or had, or not.
RemoveSubject ==
    /\ InUse("subjects")
    /\ \E s \in Range(get_subjects(indiv_in)) \cup {"RGP_XYZ_Q"} :
           LET rm == remove_subject(indiv, s)
           IN  /\ indiv' = rm.df
               /\ result' = Outcome("remove_subject", s, rm)
               /\ pc' = IF rm.err = "" THEN "removed" ELSE "raised"
    /\ written' = NothingWritten
    /\ UNCHANGED <<indiv_in, tags, samples, history, assignments, tagQueue,
                   output, call>>

\* indiv.remove_family(f), for a family of the registry or not.
RemoveFamily ==
    /\ InUse("subjects")
    /\ \E f \in {"F1", "F2", "RGP_XYZ"} :
           LET rm == remove_family(indiv, f)
           IN  /\ indiv' = rm.df
               /\ result' = Outcome("remove_family", f, rm)
               /\ pc' = IF rm.err = "" THEN "removed" ELSE "raised"
    /\ written' = NothingWritten
    /\ UNCHANGED <<indiv_in, tags, samples, history, assignments, tagQueue,
                   output, call>>

\* A subject registry, or a tag registry, in use.
InitRegistry ==
    \/ \E reg \in WriterRegistries(RegistrySubjects) :
           Ready("subjects", reg, <<>>)
    \/ \E tdf \in TagRegistries(MaxTagRows) : Ready("tags", <<>>, tdf)

NextRegistry ==
    \/ WritePedigree
    \/ WriteHpo
    \/ WriteLabels
    \/ RemoveSubject
    \/ RemoveFamily

SpecRegistry == InitRegistry /\ [][NextRegistry]_vars

-----------------------------------------------------------------------------
(* The pedigree of a registry *)

\* Registries of n subjects: a family, a father who is blank, named or "0",
\* a mother who is blank or named, a sex or none, a status.
PedigreeRegistries(n) ==
    LET Rows(id) ==
            {[id |-> id, fam |-> f, pat |-> p, mat |-> m, sex |-> x,
              aff |-> a, loaded |-> "Yes", hpo |-> NaN] :
             f \in {"F1", "F2"}, p \in {NaN, "F0_1", "0"},
             m \in {NaN, "F0_2"}, x \in {"Male", "Female", "Unknown", NaN},
             a \in {"Affected", "Unaffected"}}
    IN  {reg \in [1..n -> UNION {Rows(SubjectNames[i]) : i \in 1..n}] :
            \A i \in 1..n : reg[i].id = SubjectNames[i]}

InitPedigree ==
    \E reg \in PedigreeRegistries(PedigreeSubjects) :
        Ready("subjects", reg, <<>>)

SpecPedigree == InitPedigree /\ [][WritePedigree]_vars

-----------------------------------------------------------------------------
(* The registries in use: queries and removals *)

\* Registries of n subjects in two families: the subjects of one family are
\* affected male children with parents and HPO terms, those of the other
\* unaffected founders with blank cells.
AccessRegistries(n) ==
    { [i \in 1..n |->
          IF f[i] = "F1"
          THEN [id |-> SubjectNames[i], fam |-> f[i], pat |-> "F0_1",
                mat |-> "F0_2", sex |-> "Male", aff |-> "Affected",
                loaded |-> "Yes", hpo |-> <<"A", " ", "(", "x", ")">>]
          ELSE [id |-> SubjectNames[i], fam |-> f[i], pat |-> NaN,
                mat |-> NaN, sex |-> NaN, aff |-> "Unaffected",
                loaded |-> "No", hpo |-> NaN]] :
      f \in [1..n -> {"F1", "F2"}] }

Accessors ==
    {"get_sex", "get_family_id", "get_paternal_id", "get_maternal_id",
     "is_affected", "is_data_loaded", "get_hpo_terms_present"}

\* The accessor of the name, applied.
Accessor(op, df, subject_id) ==
    CASE op = "get_sex" -> get_sex(df, subject_id)
      [] op = "get_family_id" -> get_family_id(df, subject_id)
      [] op = "get_paternal_id" -> get_paternal_id(df, subject_id)
      [] op = "get_maternal_id" -> get_maternal_id(df, subject_id)
      [] op = "is_affected" -> is_affected(df, subject_id)
      [] op = "is_data_loaded" -> is_data_loaded(df, subject_id)
      [] op = "get_hpo_terms_present" -> get_hpo_terms_present(df, subject_id)

\* indiv.get_subjects_for_family(f), for a family of the registry or not.
GetSubjectsForFamily ==
    /\ InUse("subjects")
    /\ \E f \in {"F1", "F2", "RGP_XYZ"} :
           LET got == get_subjects_for_family(indiv, f)
           IN  /\ indiv' = got.df
               /\ result' = Outcome("get_subjects_for_family", f, got)
               /\ pc' = IF got.err = "" THEN "returned" ELSE "raised"
    /\ written' = NothingWritten
    /\ UNCHANGED <<indiv_in, tags, samples, history, assignments, tagQueue,
                   output, call>>

\* A field accessor of indiv, for a subject the registry has or had, or not.
CallAccessor ==
    /\ InUse("subjects")
    /\ \E op \in Accessors,
          s \in Range(get_subjects(indiv_in)) \cup {"RGP_XYZ_Q"} :
           LET got == Accessor(op, indiv, s)
           IN  /\ indiv' = got.df
               /\ result' = Outcome(op, s, got)
               /\ pc' = IF got.err = "" THEN "returned" ELSE "raised"
    /\ written' = NothingWritten
    /\ UNCHANGED <<indiv_in, tags, samples, history, assignments, tagQueue,
                   output, call>>

\* tags.get_highest_precedence_tag(f), for a family of the tags or not.
GetHighestPrecedenceTag ==
    /\ InUse("tags")
    /\ \E f \in {"F1", "F2", "RGP_XYZ"} :
           result' = [err |-> "", val |-> get_highest_precedence_tag(tags, f),
                      op |-> "get_highest_precedence_tag", arg |-> f]
    /\ pc' = "returned"
    /\ written' = NothingWritten
    /\ UNCHANGED <<indiv, indiv_in, tags, samples, history, assignments,
                   tagQueue, output, call>>

\* tags.get_variants_for_family(f), for a family of the tags or not.
GetVariantsForFamily ==
    /\ InUse("tags")
    /\ \E f \in {"F1", "F2", "RGP_XYZ"} :
           result' = [err |-> "", val |-> get_variants_for_family(tags, f),
                      op |-> "get_variants_for_family", arg |-> f]
    /\ pc' = "returned"
    /\ written' = NothingWritten
    /\ UNCHANGED <<indiv, indiv_in, tags, samples, history, assignments,
                   tagQueue, output, call>>

\* tags.get_tags_for_family_and_variant(f, v), for a family and a variant of
\* the tags or not.
GetTagsForFamilyAndVariant ==
    /\ InUse("tags")
    /\ \E f \in {"F1", "F2", "RGP_XYZ"}, v \in {"1-1-A-T", "1-2-C-G", "9-9-G-C"} :
           LET got == get_tags_for_family_and_variant(tags, f, v)
           IN  /\ tags' = got.df
               /\ result' = Outcome("get_tags_for_family_and_variant",
                                    <<f, v>>, got)
               /\ pc' = IF got.err = "" THEN "returned" ELSE "raised"
    /\ written' = NothingWritten
    /\ UNCHANGED <<indiv, indiv_in, samples, history, assignments, tagQueue,
                   output, call>>

\* A subject registry, or a tag registry, that is queried and removed from.
InitAccess ==
    \/ \E reg \in AccessRegistries(AccessSubjects) :
           Ready("subjects", reg, <<>>)
    \/ \E tdf \in TagRegistries(MaxTagRows) : Ready("tags", <<>>, tdf)

NextAccess ==
    \/ RemoveSubject
    \/ RemoveFamily
    \/ GetSubjectsForFamily
    \/ CallAccessor
    \/ GetHighestPrecedenceTag
    \/ GetVariantsForFamily
    \/ GetTagsForFamilyAndVariant

SpecAccess == InitAccess /\ [][NextAccess]_vars

-----------------------------------------------------------------------------
(* The parse calls *)

\* The field of a subject row that holds a column.
SubjectField ==
    [id |-> "Individual ID", fam |-> "Family ID", pat |-> "Paternal ID",
     mat |-> "Maternal ID", sex |-> "Sex", aff |-> "Affected Status",
     loaded |-> "Individual Data Loaded", hpo |-> "HPO Terms (present)"]

TagField == [family |-> "family", variant |-> "variant", tags |-> "tags"]

\* The row as a table of the columns holds it.
Masked(row, cols, field) ==
    [f \in DOMAIN row |-> IF field[f] \in cols THEN row[f] ELSE NaN]

\* The tables of up to n rows of the pool under each of the column sets.
Tables(n, pool, columnSets, field) ==
    {[cols |-> cols, rows |-> [i \in 1..k |-> Masked(r[i], cols, field)]] :
     <<cols, k, r>> \in
         UNION {UNION {{<<c, k, r>> : r \in [1..k -> pool]} : k \in 0..n} :
                c \in columnSets}}

\* Subject tables: two rows of one Individual ID and a row of another; all
\* the columns, or all but Sex, or all but Individual ID.
SubjectTables ==
    Tables(MaxRows,
           {SubjectRow("F1_3", "F1", "Affected", "Yes"),
            SubjectRow("F1_3", "F2", "Unaffected", "Yes"),
            SubjectRow("F2_3", "F2", "Affected", "Yes")},
           {SubjectColumns, SubjectColumns \ {"Sex"},
            SubjectColumns \ {"Individual ID"}},
           SubjectField)

\* Tag tables: all the columns, or all but tags.
TagTablesRead ==
    Tables(MaxRows,
           {TagRow("F1", "1-1-A-T", <<"Known gene for phenotype">>),
            TagRow("F2", "1-2-C-G", <<"Excluded">>)},
           {{"family", "variant", "tags"}, {"family", "variant"}},
           TagField)

PathLists(tables) == UNION {[1..k -> tables] : k \in 1..MaxTables}

\* A parse call is about to be made on the tables of its paths.
InitParse ==
    /\ pc = "parse"
    /\ \/ \E paths \in PathLists(SubjectTables) :
              call = [kind |-> "subjects", tables |-> paths]
       \/ \E paths \in PathLists(TagTablesRead) :
              call = [kind |-> "tags", tables |-> paths]
    /\ indiv = <<>>
    /\ indiv_in = <<>>
    /\ tags = <<>>
    /\ samples = NoSamples
    /\ history = NoFile
    /\ assignments = <<>>
    /\ tagQueue = <<>>
    /\ output = <<>>
    /\ result = NoResult
    /\ written = NothingWritten

\* indiv = SeqrSubjects.parse(paths).
ParseSubjects ==
    /\ pc = "parse"
    /\ call.kind = "subjects"
    /\ result' = SeqrSubjects_parse(call.tables)
    /\ indiv' = IF result'.err = "" THEN result'.val ELSE indiv
    /\ indiv_in' = indiv'
    /\ pc' = IF result'.err = "" THEN "ready" ELSE "raised"
    /\ UNCHANGED <<tags, samples, history, assignments, tagQueue, output,
                   call, written>>

\* tags = SeqrTags.parse(paths).
ParseTags ==
    /\ pc = "parse"
    /\ call.kind = "tags"
    /\ result' = SeqrTags_parse(call.tables)
    /\ tags' = IF result'.err = "" THEN result'.val ELSE tags
    /\ pc' = IF result'.err = "" THEN "ready" ELSE "raised"
    /\ UNCHANGED <<indiv, indiv_in, samples, history, assignments, tagQueue,
                   output, call, written>>

NextParse == ParseSubjects \/ ParseTags

SpecParse == InitParse /\ [][NextParse]_vars

-----------------------------------------------------------------------------
(* The group assigner: history, quota, totality, membership *)

\* The families that survived filter_indiv.
Eligible == Range(get_families(indiv))

\* The rows of a table (assignments, output, history) of one family.
RowsOf(rows, family_id) ==
    {i \in 1..Len(rows) : rows[i].family_id = family_id}

\* The assignments as they stand when the loop over the tags starts.
Overlaid ==
    IF history.given
    THEN update(InitialAssignments(indiv, tags), read_csv(history.rows))
    ELSE InitialAssignments(indiv, tags)

Min(a, b) == IF a < b THEN a ELSE b

\* C1: a family of the eligible set that has the group train or holdout in
\* the history file has exactly that group in the file the run writes,
\* whatever the shuffles, in every run of a chain of reruns.
C1_HistoryGroupKept ==
    pc = "done" =>
        \A h \in Range(history.rows) :
            (h.group \in {"train", "holdout"} /\ h.family_id \in Eligible) =>
                /\ RowsOf(output, h.family_id) # {}
                /\ \A i \in RowsOf(output, h.family_id) :
                       output[i].group = h.group

\* A run has ended in which a family kept its group train from the history
\* while another family of the same tag, new to the history, was shuffled.
C1_Witness ==
    /\ pc = "done"
    /\ \E h \in Range(history.rows), i, j \in 1..Len(output) :
           /\ h.group = "train"
           /\ output[i].family_id = h.family_id
           /\ output[j].tag = output[i].tag
           /\ RowsOf(history.rows, output[j].family_id) = {}

\* C2: for every tag, the number of families without a group that the loop
\* assigns to train is floor(0.5 * families of the tag) less the families of
\* the tag that the history fixed to train, kept between 0 and the number of
\* families without a group; the others of them are assigned to holdout.
C2_Quota ==
    pc = "done" =>
        \A t \in {Overlaid[i].tag : i \in 1..Len(Overlaid)} :
            LET ofTag == {i \in 1..Len(Overlaid) : Overlaid[i].tag = t}
                pool == {i \in ofTag : isna(Overlaid[i].group)}
                fixedTrain ==
                    Cardinality({i \in ofTag : Overlaid[i].group = "train"})
                wanted == (Cardinality(ofTag) \div 2) - fixedTrain
                quota == IF wanted < 0 THEN 0
                         ELSE Min(wanted, Cardinality(pool))
            IN  /\ Cardinality({i \in pool : assignments[i].group = "train"})
                       = quota
                /\ \A i \in pool : assignments[i].group \in {"train", "holdout"}

\* C3: when the loop has ended, every family that survived the filter has
\* exactly one row, and its group is train or holdout.
C3_EveryFamilyAssigned ==
    pc = "done" =>
        \A f \in Eligible :
            /\ Cardinality(RowsOf(assignments, f)) = 1
            /\ \A i \in RowsOf(assignments, f) :
                   assignments[i].group \in {"train", "holdout"}

\* A run has ended in which the history fixed one family and the loop
\* assigned another.
C3_Witness ==
    /\ pc = "done"
    /\ history.given
    /\ \E i, j \in 1..Len(Overlaid) :
           isna(Overlaid[i].group) /\ ~isna(Overlaid[j].group)

\* C4: the families of the file written are exactly the families that
\* survived the filter, one row each; a family of the history that did not
\* survive has no row and is not counted in the total of its tag: where the
\* history fixes no more than floor(0.5 * rows of the tag) to train, the
\* loop fills train up to that number as far as the rows without a group go.
C4_OutputMembership ==
    pc = "done" =>
        /\ [i \in 1..Len(output) |-> output[i].family_id] = get_families(indiv)
        /\ \A f \in Eligible : Cardinality(RowsOf(output, f)) = 1
        /\ \A h \in Range(history.rows) :
               h.family_id \notin Eligible => RowsOf(output, h.family_id) = {}
        /\ \A t \in {output[i].tag : i \in 1..Len(output)} :
               LET ofTag == {i \in 1..Len(output) : output[i].tag = t}
                   fixed == {i \in ofTag :
                                \E h \in Range(history.rows) :
                                    /\ h.family_id = output[i].family_id
                                    /\ h.group \in {"train", "holdout"}}
                   fixedTrain ==
                       Cardinality({i \in fixed : output[i].group = "train"})
                   half == Cardinality(ofTag) \div 2
               IN  fixedTrain <= half =>
                       Cardinality({i \in ofTag : output[i].group = "train"})
                           = Min(half, fixedTrain + Cardinality(ofTag \ fixed))

\* A run has ended whose history lists a family that did not survive the
\* filter, with the tag of a family that did and was assigned by the loop.
C4_Witness ==
    /\ pc = "done"
    /\ \E h \in Range(history.rows), i \in 1..Len(output) :
           /\ h.family_id \notin Eligible
           /\ h.tag = output[i].tag
           /\ RowsOf(history.rows, output[i].family_id) = {}

-----------------------------------------------------------------------------
(* filter_indiv and the registry *)

\* filter_indiv has returned.
Filtered == pc = "build"

\* The family has a subject of the registry handed in that is both
\* data-loaded and affected.
HasLoadedAffected(fam) ==
    \E k \in 1..Len(indiv_in) :
        /\ indiv_in[k].fam = fam
        /\ indiv_in[k].loaded = "Yes"
        /\ indiv_in[k].aff = "Affected"

\* Every data-loaded subject of the family is in the sample list.
AllLoadedSampled(fam) ==
    \A k \in 1..Len(indiv_in) :
        (indiv_in[k].fam = fam /\ indiv_in[k].loaded = "Yes") =>
            indiv_in[k].id \in samples.ids

\* C5: without a sample list, the subjects left by filter_indiv are exactly
\* the data-loaded subjects of the families that have a subject both
\* data-loaded and affected.
C5_FilterWithoutSamples ==
    (Filtered /\ ~samples.given) =>
        indiv = SelectSeq(indiv_in,
                    LAMBDA r : r.loaded = "Yes" /\ HasLoadedAffected(r.fam))

\* filter_indiv has returned, no sample list given: a family whose only
\* affected subject had no data loaded is gone although another subject of
\* it had data loaded, and another family is left.
C5_Witness ==
    /\ Filtered
    /\ ~samples.given
    /\ indiv # <<>>
    /\ \E k, m \in 1..Len(indiv_in) :
           /\ indiv_in[k].fam = indiv_in[m].fam
           /\ indiv_in[k].aff = "Affected" /\ indiv_in[k].loaded = "No"
           /\ indiv_in[m].aff = "Unaffected" /\ indiv_in[m].loaded = "Yes"
           /\ ~HasLoadedAffected(indiv_in[k].fam)

\* C6: with a sample list, a family that passed the first two steps is left
\* iff every data-loaded subject of it is in the list; otherwise all its
\* subjects are removed, and no subject of another family is.
C6_FilterWithSamples ==
    (Filtered /\ samples.given) =>
        indiv = SelectSeq(indiv_in,
                    LAMBDA r : /\ r.loaded = "Yes"
                               /\ HasLoadedAffected(r.fam)
                               /\ AllLoadedSampled(r.fam))

\* filter_indiv has returned, a sample list given: a family with an affected,
\* data-loaded subject in the list is gone because another data-loaded
\* subject of it is not in the list, and another family is left.
C6_Witness ==
    /\ Filtered
    /\ samples.given
    /\ indiv # <<>>
    /\ \E k, m \in 1..Len(indiv_in) :
           /\ indiv_in[k].fam = indiv_in[m].fam
           /\ indiv_in[k].aff = "Affected" /\ indiv_in[k].loaded = "Yes"
           /\ indiv_in[k].id \in samples.ids
           /\ indiv_in[m].loaded = "Yes"
           /\ indiv_in[m].id \notin samples.ids

\* a is b with some of its rows left out.
RECURSIVE IsSubsequence(_, _)
IsSubsequence(a, b) ==
    IF a = <<>> THEN TRUE
    ELSE IF b = <<>> THEN FALSE
    ELSE IF Head(a) = Head(b) THEN IsSubsequence(Tail(a), Tail(b))
    ELSE IsSubsequence(a, Tail(b))

\* C7 as stated: after the filtering and the partitioning the registry has
\* the subjects and the field values it had before.
C7_RegistryUntouched ==
    pc \in {"build", "history", "assign", "done"} => indiv = indiv_in

\* C7 amended: filter_indiv changes the registry it is given, and only by
\* removing rows (the rows left keep their order and their field values);
\* no later step of main changes the registry.
C7_OnlyFilterRemoves ==
    /\ [](IsSubsequence(indiv, indiv_in))
    /\ [][pc # "filter" /\ pc' # "filter" => indiv' = indiv]_vars

\* The run has ended on a registry from which filter_indiv removed rows and
\* left others.
C7_Witness ==
    /\ pc = "done"
    /\ indiv # <<>>
    /\ Len(indiv) < Len(indiv_in)

-----------------------------------------------------------------------------
(* The writers *)

\* C8: a write of PedigreeWriter, HpoWriter or ExternalLabelWriter leaves the
\* registries as they were (the same rows with the same field values), for
\* any restriction.
C8_WritersReadOnly ==
    [][pc' = "wrote" => (indiv' = indiv /\ tags' = tags)]_vars

\* PedigreeWriter has written the subjects of one family of a registry that
\* holds a subject of another family.
C8_Witness ==
    /\ pc = "wrote"
    /\ written.kind = "pedigree"
    /\ written.families.given
    /\ written.content # <<>>
    /\ \E i \in 1..Len(indiv) : indiv[i].fam \notin written.families.items

-----------------------------------------------------------------------------
(* Parsing: deduplication and validation *)

\* SeqrSubjects.parse has returned a registry.
ParsedSubjects == call.kind = "subjects" /\ pc = "ready"

\* The rows of the tables of the call, in concatenation order.
RECURSIVE AllRows(_)
AllRows(tables) ==
    IF tables = <<>> THEN <<>> ELSE Head(tables).rows \o AllRows(Tail(tables))

\* The place of the first row of the Individual ID.
FirstAt(rows, id) ==
    CHOOSE i \in 1..Len(rows) :
        rows[i].id = id /\ \A j \in 1..(i - 1) : rows[j].id # id

\* C9: after SeqrSubjects.parse of any list of tables, every Individual ID
\* of the input appears exactly once in get_subjects(), the row kept for it
\* is its first occurrence in concatenation order, and the kept rows are in
\* concatenation order; parsing a table with all the columns twice does not
\* fail and yields exactly the subjects of one copy.
C9_ParseDeduplicates ==
    LET read == AllRows(call.tables)
        subjects == get_subjects(indiv)
    IN  /\ ParsedSubjects =>
            /\ {read[i].id : i \in 1..Len(read)} = Range(subjects)
            /\ \A i, j \in 1..Len(subjects) :
                   i # j => subjects[i] # subjects[j]
            /\ \A i \in 1..Len(indiv) :
                   indiv[i] = read[FirstAt(read, indiv[i].id)]
            /\ \A i, j \in 1..Len(indiv) :
                   i < j => FirstAt(read, indiv[i].id)
                                < FirstAt(read, indiv[j].id)
        /\ ( /\ call.kind = "subjects"
             /\ pc # "parse"
             /\ Len(call.tables) = 2
             /\ call.tables[1] = call.tables[2]
             /\ call.tables[1].cols = SubjectColumns ) =>
            /\ ParsedSubjects
            /\ Range(get_subjects(indiv))
                   = {call.tables[1].rows[i].id :
                         i \in 1..Len(call.tables[1].rows)}
            /\ Len(indiv) = Cardinality(Range(get_subjects(indiv)))

\* Two tables held different rows of one Individual ID and the registry has
\* been returned.
C9_Witness ==
    /\ ParsedSubjects
    /\ Len(call.tables) >= 2
    /\ call.tables[1].rows # <<>>
    /\ call.tables[2].rows # <<>>
    /\ call.tables[1].rows[1].id = call.tables[2].rows[1].id
    /\ call.tables[1].rows[1] # call.tables[2].rows[1]
    /\ Len(indiv) < Len(AllRows(call.tables))

\* The columns a table of the call must have.
Required == IF call.kind = "subjects" THEN SubjectColumns ELSE TagColumns

\* C10: SeqrSubjects.parse and SeqrTags.parse raise ValueError whenever one
\* of the tables lacks a required column, also when another table of the
\* call has the column, and then return no registry.
C10_EveryTableValidated ==
    ( /\ pc \in {"ready", "raised"}
      /\ \E i \in 1..Len(call.tables) :
             ~(Required \subseteq call.tables[i].cols) ) =>
        /\ pc = "raised"
        /\ result.err = "ValueError"
        /\ result.val = NaN

-----------------------------------------------------------------------------
(* Removals and queries of the subject registry *)

\* C11: remove_subject(s) on a subject s of the registry leaves a registry
\* without s in get_subjects(), in which every other subject remains, in the
\* same relative order and with the same field values, whatever removals
\* came before.
C11_RemoveSubject ==
    [][(result'.op = "remove_subject"
            /\ result'.arg \in Range(get_subjects(indiv))) =>
          /\ pc' = "removed"
          /\ result'.arg \notin Range(get_subjects(indiv'))
          /\ IsSubsequence(indiv', indiv)
          /\ \A i \in 1..Len(indiv) :
                 indiv[i].id # result'.arg => indiv[i] \in Range(indiv')]_vars

\* remove_subject has removed a subject after an earlier removal and a
\* subject remains.
C11_Witness ==
    /\ pc = "removed"
    /\ result.op = "remove_subject"
    /\ Len(indiv) = Len(indiv_in) - 2
    /\ indiv # <<>>

\* C12: remove_family(f) on a family f of the registry leaves a registry
\* with no subject of f and without f in get_families(), in which every
\* subject of every other family remains unchanged and in the same relative
\* order.
C12_RemoveFamily ==
    [][(result'.op = "remove_family"
            /\ \E i \in 1..Len(indiv) : indiv[i].fam = result'.arg) =>
          /\ pc' = "removed"
          /\ \A i \in 1..Len(indiv') : indiv'[i].fam # result'.arg
          /\ result'.arg \notin Range(get_families(indiv'))
          /\ IsSubsequence(indiv', indiv)
          /\ \A i \in 1..Len(indiv) :
                 indiv[i].fam # result'.arg => indiv[i] \in Range(indiv')]_vars

\* remove_family has removed a family of two subjects and a subject of the
\* other family remains.
C12_Witness ==
    /\ pc = "removed"
    /\ result.op = "remove_family"
    /\ Cardinality({i \in 1..Len(indiv_in) : indiv_in[i].fam = result.arg}) >= 2
    /\ indiv # <<>>
    /\ \A i \in 1..Len(indiv) : indiv[i].fam # result.arg

\* The place of the first subject of the family.
FirstOfFamily(rows, fam) ==
    CHOOSE i \in 1..Len(rows) :
        rows[i].fam = fam /\ \A j \in 1..(i - 1) : rows[j].fam # fam

\* C13: in every state of the registry get_families() lists the distinct
\* family IDs of the current subjects in order of first occurrence; a family
\* whose subjects have all been removed is not listed, and
\* get_subjects_for_family fails on it with the not-found error.
C13_FamiliesDerived ==
    LET families == get_families(indiv)
    IN  /\ Range(families) = {indiv[i].fam : i \in 1..Len(indiv)}
        /\ \A i, j \in 1..Len(families) :
               i < j => /\ families[i] # families[j]
                        /\ FirstOfFamily(indiv, families[i])
                               < FirstOfFamily(indiv, families[j])
        /\ \A k \in 1..Len(indiv_in) :
               (\A i \in 1..Len(indiv) : indiv[i].fam # indiv_in[k].fam)
                   => indiv_in[k].fam \notin Range(families)
        /\ ( /\ pc \in {"returned", "raised"}
             /\ result.op = "get_subjects_for_family" ) =>
               IF \E i \in 1..Len(indiv) : indiv[i].fam = result.arg
               THEN pc = "returned"
               ELSE pc = "raised" /\ result.err = "ValueError"

\* remove_subject has removed the last subject of a family of two subjects,
\* and a subject of the other family remains.
C13_Witness ==
    /\ pc = "removed"
    /\ result.op = "remove_subject"
    /\ indiv # <<>>
    /\ \E k \in 1..Len(indiv_in) :
           /\ indiv_in[k].id = result.arg
           /\ \A i \in 1..Len(indiv) : indiv[i].fam # indiv_in[k].fam
           /\ \E m \in 1..Len(indiv_in) :
                  m # k /\ indiv_in[m].fam = indiv_in[k].fam

\* C14: remove_subject with a subject ID the registry does not hold, and
\* remove_family and get_subjects_for_family with a family ID it does not
\* hold, raise the not-found error and leave the registry as it was.
C14_NotFoundKeepsRegistry ==
    [][( \/ /\ result'.op = "remove_subject"
            /\ \A i \in 1..Len(indiv) : indiv[i].id # result'.arg
         \/ /\ result'.op \in {"remove_family", "get_subjects_for_family"}
            /\ \A i \in 1..Len(indiv) : indiv[i].fam # result'.arg ) =>
          /\ pc' = "raised"
          /\ result'.err = "ValueError"
          /\ indiv' = indiv]_vars

\* remove_family has raised for a family whose subjects had been removed
\* before, on a registry that still holds a subject.
C14_Witness ==
    /\ pc = "raised"
    /\ result.op = "remove_family"
    /\ result.err = "ValueError"
    /\ indiv # <<>>
    /\ \E k \in 1..Len(indiv_in) : indiv_in[k].fam = result.arg

\* C15: each field accessor raises the not-found error for a subject ID the
\* registry does not hold now, also for a subject that remove_subject or
\* remove_family has removed, and returns for every subject get_subjects()
\* lists.
C15_AccessorsNotFound ==
    (pc \in {"returned", "raised"} /\ result.op \in Accessors) =>
        IF result.arg \in Range(get_subjects(indiv))
        THEN pc = "returned" /\ result.err = ""
        ELSE pc = "raised" /\ result.err = "ValueError" /\ result.val = NaN

\* An accessor has raised for a subject that was removed from a registry
\* that still holds a subject.
C15_Witness ==
    /\ pc = "raised"
    /\ result.op \in Accessors
    /\ result.err = "ValueError"
    /\ result.arg \in Range(get_subjects(indiv_in))
    /\ result.arg \notin Range(get_subjects(indiv))
    /\ indiv # <<>>

-----------------------------------------------------------------------------
(* The tag of highest precedence *)

\* The tags of the family: the "|"-separated parts of the tags cells of its
\* rows, blank cells left out.
TagsOf(tdf, family_id) ==
    {t \in Range(TAGS_OF_INTEREST) \cup {"Excluded", ""} :
        \E i \in 1..Len(tdf) :
            /\ tdf[i].family = family_id
            /\ ~isna(tdf[i].tags)
            /\ \E part \in Range(split(tdf[i].tags, "|")) : text(part) = t}

\* C16: get_highest_precedence_tag(family) returns the earliest entry of
\* TAGS_OF_INTEREST among the "|"-split tags of all the rows of the family,
\* and None when the family has no rows, only blank tags cells, or only tags
\* that are not in TAGS_OF_INTEREST.
C16_HighestPrecedenceTag ==
    (pc = "returned" /\ result.op = "get_highest_precedence_tag") =>
        LET ranks == {k \in 1..Len(TAGS_OF_INTEREST) :
                         TAGS_OF_INTEREST[k] \in TagsOf(tags, result.arg)}
        IN  /\ result.err = ""
            /\ IF ranks = {} THEN result.val = NaN
               ELSE /\ result.val \in TagsOf(tags, result.arg)
                    /\ \E k \in ranks :
                           /\ result.val = TAGS_OF_INTEREST[k]
                           /\ \A m \in ranks : k <= m

\* The family has a row whose cell names the second tag of interest before
\* the first and a row with a blank cell, and the first tag was returned.
C16_Witness ==
    /\ pc = "returned"
    /\ result.op = "get_highest_precedence_tag"
    /\ result.val = TAGS_OF_INTEREST[1]
    /\ \E i, j \in 1..Len(tags) :
           /\ tags[i].family = result.arg
           /\ tags[j].family = result.arg
           /\ isna(tags[j].tags)
           /\ ~isna(tags[i].tags)
           /\ tags[i].tags[1] = TAGS_OF_INTEREST[2]

-----------------------------------------------------------------------------
(* The files of the writers *)

\* PedigreeWriter has written the file of the registry.
PedigreeWritten == pc = "wrote" /\ written.kind = "pedigree"

\* The subject's family is among the families the writer was given.
Included(fam) == ~written.families.given \/ fam \in written.families.items

\* The line of the subject of the row.
ExpectedLine(row) ==
    << row.fam,
       row.id,
       IF isna(row.pat) \/ row.pat = "" THEN "0" ELSE row.pat,
       IF isna(row.mat) \/ row.mat = "" THEN "0" ELSE row.mat,
       CASE row.sex = "Male" -> "1" [] row.sex = "Female" -> "2" [] OTHER -> "0",
       IF row.aff = "Affected" THEN "2" ELSE "1" >>

\* C17: PedigreeWriter writes one line for each subject of an included family
\* (of any family without a restriction), in the order of the registry, and
\* none for a subject of another family; the line holds the family ID, the
\* subject ID, the parents' IDs or "0" for a blank one, the sex as 1 (Male),
\* 2 (Female) or 0 (anything else) and the status as 2 (affected) or 1.
C17_PedigreeLines ==
    PedigreeWritten =>
        LET at == SelectSeq([i \in 1..Len(indiv) |-> i],
                            LAMBDA i : Included(indiv[i].fam))
        IN  /\ Len(written.content) = Len(at)
            /\ \A k \in 1..Len(at) :
                   written.content[k] = ExpectedLine(indiv[at[k]])
            /\ \A k \in 1..Len(written.content) :
                   Included(written.content[k][1])

\* A restricted file holds the line of a child of an included family and
\* leaves out a founder of the other family.
C17_Witness ==
    /\ PedigreeWritten
    /\ written.families.given
    /\ Len(written.content) = 1
    /\ Len(indiv) >= 2
    /\ written.content[1][3] # "0"
    /\ \E i \in 1..Len(indiv) :
           ~Included(indiv[i].fam) /\ isna(indiv[i].pat)

\* Reading a line back: "0" for a parent is no parent, 1 and 2 are the
\* sexes, 2 is affected.
DecodeParent(field) == IF field = "0" THEN "" ELSE field

DecodeSex(code) ==
    CASE code = "1" -> "Male" [] code = "2" -> "Female" [] OTHER -> "other"

DecodeAffected(code) == code = "2"

SexClass(sex) == IF sex \in {"Male", "Female"} THEN sex ELSE "other"

\* What a line read back and the accessors of the registry agree on, but
\* for the parents.
ReadBack(line) ==
    /\ line[1] = get_family_id(indiv, line[2]).val
    /\ DecodeSex(line[5]) = SexClass(get_sex(indiv, line[2]).val)
    /\ DecodeAffected(line[6]) = is_affected(indiv, line[2]).val

\* C18 as stated: every line of the pedigree read back gives the family ID,
\* the paternal and the maternal ID, the class of the sex and the affected
\* flag that the accessors of the registry return for its subject.
C18_RoundTrip ==
    PedigreeWritten =>
        \A k \in 1..Len(written.content) :
            LET line == written.content[k]
            IN  /\ ReadBack(line)
                /\ DecodeParent(line[3]) = get_paternal_id(indiv, line[2]).val
                /\ DecodeParent(line[4]) = get_maternal_id(indiv, line[2]).val

\* C18 amended: every line read back gives the family ID, the class of the
\* sex and the affected flag of the accessors, and the paternal and maternal
\* ID of the accessors unless that ID is the string "0", which is written as
\* "0" and reads back as no parent.
C18_RoundTripButZero ==
    PedigreeWritten =>
        \A k \in 1..Len(written.content) :
            LET line == written.content[k]
                father == get_paternal_id(indiv, line[2]).val
                mother == get_maternal_id(indiv, line[2]).val
            IN  /\ ReadBack(line)
                /\ DecodeParent(line[3]) = IF father = "0" THEN "" ELSE father
                /\ DecodeParent(line[4]) = IF mother = "0" THEN "" ELSE mother

\* The line of a subject whose father is "0" and whose mother is blank has
\* been written.
C18_Witness ==
    /\ PedigreeWritten
    /\ written.content # <<>>
    /\ \E i \in 1..Len(indiv) :
           /\ indiv[i].id = written.content[1][2]
           /\ indiv[i].pat = "0"
           /\ isna(indiv[i].mat)

\* C19: the keys of the object HpoWriter writes are the subjects whose
\* family is among families_to_write (all the subjects when it is None); the
\* value of a subject holds its family ID and its HPO terms as the registry
\* returns them; no subject of another family is there.
C19_HpoKeys ==
    (pc = "wrote" /\ written.kind = "hpo") =>
        /\ DOMAIN written.content
               = {indiv[i].id : i \in {j \in 1..Len(indiv) :
                                          Included(indiv[j].fam)}}
        /\ \A i \in 1..Len(indiv) :
               Included(indiv[i].fam) =>
                   /\ written.content[indiv[i].id].family_id = indiv[i].fam
                   /\ written.content[indiv[i].id].hpo_terms
                          = get_hpo_terms_present(indiv, indiv[i].id).val

\* A restricted object holds a child with its two HPO terms and leaves out
\* a subject of the other family.
C19_Witness ==
    /\ pc = "wrote"
    /\ written.kind = "hpo"
    /\ written.families.given
    /\ \E i, j \in 1..Len(indiv) :
           /\ ~Included(indiv[j].fam)
           /\ indiv[i].id \in DOMAIN written.content
           /\ written.content[indiv[i].id].hpo_terms = << <<"A">>, <<"B">> >>

\* The tags of the variant of the family that are on the allow-list of the
\* writer, all its tags without a list.
Restricted(family, variant) ==
    SelectSeq(get_tags_for_family_and_variant(tags, family, variant).val,
              LAMBDA t : ~written.tags_to_write.given
                             \/ t \in written.tags_to_write.items)

\* C20: in the object ExternalLabelWriter writes, a variant is under its
\* family exactly if its tags restricted to the allow-list are not empty,
\* and a family is a key exactly if families_to_write includes it and one of
\* its variants is under it; no family has an empty object and no variant an
\* empty list.
C20_LabelOmission ==
    (pc = "wrote" /\ written.kind = "labels") =>
        LET families == {tags[i].family : i \in 1..Len(tags)}
            VariantsOf(f) == {tags[i].variant :
                                 i \in {j \in 1..Len(tags) : tags[j].family = f}}
            Qualifying(f) == {v \in VariantsOf(f) : Restricted(f, v) # <<>>}
        IN  /\ DOMAIN written.content
                   = {f \in families : Included(f) /\ Qualifying(f) # {}}
            /\ \A f \in DOMAIN written.content :
                   /\ DOMAIN written.content[f] = Qualifying(f)
                   /\ DOMAIN written.content[f] # {}
                   /\ \A v \in DOMAIN written.content[f] :
                          /\ written.content[f][v] = Restricted(f, v)
                          /\ written.content[f][v] # <<>>

\* With an allow-list, a family is written with one of its variants while
\* another of its variants, whose tags are not on the list, is left out.
C20_Witness ==
    /\ pc = "wrote"
    /\ written.kind = "labels"
    /\ written.tags_to_write.given
    /\ \E i \in 1..Len(tags) :
           /\ tags[i].family \in DOMAIN written.content
           /\ tags[i].variant \notin DOMAIN written.content[tags[i].family]
           /\ ~isna(tags[i].tags)

-----------------------------------------------------------------------------
(* The tags of a variant *)

\* The rows of the variant of the family that have a tags cell.
TaggedRows(family, variant) ==
    {i \in 1..Len(tags) : /\ tags[i].family = family
                          /\ tags[i].variant = variant
                          /\ ~isna(tags[i].tags)}

\* The "|"-separated parts of the tags cell of the row, in order.
PartsOf(i) ==
    LET parts == split(tags[i].tags, "|")
    IN  [k \in 1..Len(parts) |-> text(parts[k])]

\* C21: get_tags_for_family_and_variant(family, variant) raises the
\* not-found error when the family has no rows; otherwise it returns the
\* "|"-split tags of the row of the variant, and an empty list when the
\* variant has no row or a blank tags cell.  get_variants_for_family returns
\* an empty list for a family without rows and does not raise.
C21_TagsOfVariant ==
    /\ ( /\ pc \in {"returned", "raised"}
         /\ result.op = "get_tags_for_family_and_variant" ) =>
           LET family == result.arg[1]
               variant == result.arg[2]
           IN  IF \A i \in 1..Len(tags) : tags[i].family # family
               THEN pc = "raised" /\ result.err = "ValueError"
               ELSE /\ pc = "returned"
                    /\ result.err = ""
                    /\ IF TaggedRows(family, variant) = {}
                       THEN result.val = <<>>
                       ELSE \E i \in TaggedRows(family, variant) :
                                result.val = PartsOf(i)
    /\ ( /\ pc \in {"returned", "raised"}
         /\ result.op = "get_variants_for_family" ) =>
           /\ pc = "returned"
           /\ Range(result.val)
                  = {tags[i].variant :
                        i \in {j \in 1..Len(tags) : tags[j].family = result.arg}}

\* The tags of a variant without a row have been asked for, of a family
\* that has a row of another variant with two tags.
C21_Witness ==
    /\ pc = "returned"
    /\ result.op = "get_tags_for_family_and_variant"
    /\ result.val = <<>>
    /\ \E i \in 1..Len(tags) :
           /\ tags[i].family = result.arg[1]
           /\ tags[i].variant # result.arg[2]
           /\ ~isna(tags[i].tags)
           /\ Len(PartsOf(i)) = 2
    /\ \A i \in 1..Len(tags) :
           tags[i].family = result.arg[1] => tags[i].variant # result.arg[2]

-----------------------------------------------------------------------------
(* The group assigner: tags of the history, full groups, balance, reruns *)

\* The tag computed from the tag registry for the family.
FreshTag(family_id) ==
    IF isna(get_highest_precedence_tag(tags, family_id)) THEN "untagged"
    ELSE get_highest_precedence_tag(tags, family_id)

\* The rows of the history file of the family that have a tag.
HistoryTagged(family_id) ==
    {h \in Range(history.rows) : h.family_id = family_id /\ h.tag # ""}

\* C22: a family of the eligible set that the history lists with a tag is
\* stratified and written with the tag of the history, not with the tag
\* computed from the tag registry; a family the history does not list has the
\* computed tag of highest precedence, or "untagged" when there is none.
C22_HistoryTagFirst ==
    pc \in {"assign", "done"} =>
        /\ \A i \in 1..Len(assignments) :
               LET family == assignments[i].family_id
               IN  /\ \A h \in HistoryTagged(family) :
                          assignments[i].tag = h.tag
                   /\ RowsOf(history.rows, family) = {} =>
                          assignments[i].tag = FreshTag(family)
                   /\ pc = "done" => /\ output[i].family_id = family
                                     /\ output[i].tag = assignments[i].tag
        /\ Range(tagQueue) \subseteq
               {assignments[i].tag : i \in 1..Len(assignments)}

\* A run has ended in which a family is written with the tag of the history
\* while the tag registry gives it another, and a family that the history
\* does not list is written with the tag of the registry.
C22_Witness ==
    /\ pc = "done"
    /\ \E i, j \in 1..Len(output) :
           /\ HistoryTagged(output[i].family_id) # {}
           /\ output[i].tag # FreshTag(output[i].family_id)
           /\ RowsOf(history.rows, output[j].family_id) = {}
           /\ output[j].tag = TAGS_OF_INTEREST[1]

\* Every family of the tag has a group.
FullGroup(tag) ==
    \A i \in 1..Len(assignments) :
        assignments[i].tag = tag => ~isna(assignments[i].group)

\* C23: the turn of the loop for a tag whose families all have a group from
\* the history changes no group and raises nothing, whether the families in
\* train are fewer or more than floor(0.5 * families of the tag).
C23_FullGroupUntouched ==
    [][(pc = "assign" /\ tagQueue # <<>> /\ FullGroup(Head(tagQueue))) =>
          /\ assignments' = assignments
          /\ pc' = "assign"
          /\ tagQueue' = Tail(tagQueue)]_vars

\* The loop has passed a tag whose families all had a group from the
\* history, more of them in train than floor(0.5 * families of the tag),
\* and has another tag to go.
C23_Witness ==
    /\ pc = "assign"
    /\ tagQueue # <<>>
    /\ \E t \in {Overlaid[i].tag : i \in 1..Len(Overlaid)} \ Range(tagQueue) :
           LET ofTag == {i \in 1..Len(Overlaid) : Overlaid[i].tag = t}
           IN  /\ \A i \in ofTag : ~isna(Overlaid[i].group)
               /\ Cardinality({i \in ofTag : Overlaid[i].group = "train"})
                      > Cardinality(ofTag) \div 2
               /\ \A i \in ofTag : assignments[i] = Overlaid[i]

\* The rows of the file written that have the tag, and those of them in the
\* group.
Written(tag) == {i \in 1..Len(output) : output[i].tag = tag}

WrittenIn(tag, group) == {i \in Written(tag) : output[i].group = group}

\* C24: without a history file, the file written has for every tag with n
\* families floor(n / 2) of them in train and the other n - floor(n / 2) in
\* holdout, so that holdout has as many families as train or one more,
\* whatever the shuffles.
C24_HalfWithoutHistory ==
    (pc = "done" /\ ~history.given) =>
        \A t \in {output[i].tag : i \in 1..Len(output)} :
            LET n == Cardinality(Written(t))
                train == Cardinality(WrittenIn(t, "train"))
                holdout == Cardinality(WrittenIn(t, "holdout"))
            IN  /\ train = n \div 2
                /\ holdout = n - (n \div 2)
                /\ holdout - train \in {0, 1}

\* A run without history has ended with two families of one tag, one in
\* each group, and a single family of another tag, in holdout.
C24_Witness ==
    /\ pc = "done"
    /\ ~history.given
    /\ \E t, u \in {output[i].tag : i \in 1..Len(output)} :
           /\ Cardinality(Written(t)) = 2
           /\ Cardinality(WrittenIn(t, "train")) = 1
           /\ Cardinality(Written(u)) = 1
           /\ Cardinality(WrittenIn(u, "holdout")) = 1

\* C25: in a chain of runs, each with the file of the run before as its
\* history and with no eligible family lost, every run writes for every tag
\* floor(0.5 * families of the tag) families in train.
C25_BalanceUnderGrowth ==
    pc = "done" =>
        \A t \in {output[i].tag : i \in 1..Len(output)} :
            Cardinality(WrittenIn(t, "train")) = Cardinality(Written(t)) \div 2

\* A rerun has ended in which a tag has more families than in the history
\* and more of them in train.
C25_Witness ==
    /\ pc = "done"
    /\ history.given
    /\ \E t \in {output[i].tag : i \in 1..Len(output)} :
           LET before == {h \in Range(history.rows) : h.tag = t}
           IN  /\ before # {}
               /\ Cardinality(before) < Cardinality(Written(t))
               /\ Cardinality({h \in before : h.group = "train"})
                      < Cardinality(WrittenIn(t, "train"))

\* The history file is a complete file of assignments of the families that
\* are eligible now: every one of them once, with a group and a tag.
HistoryComplete ==
    /\ history.given
    /\ {h.family_id : h \in Range(history.rows)} = Range(get_families(indiv))
    /\ \A f \in Range(get_families(indiv)) :
           Cardinality(RowsOf(history.rows, f)) = 1
    /\ \A h \in Range(history.rows) : h.group # "" /\ h.tag # ""

\* C26: a run whose history is the complete file of an earlier run over the
\* same eligible families writes that file again, every family with the
\* same group and the same tag, whatever the shuffles.
C26_RerunIdempotent ==
    (pc = "done" /\ HistoryComplete) =>
        /\ Len(output) = Len(history.rows)
        /\ \A i \in 1..Len(output) :
               \E h \in Range(history.rows) :
                   /\ h.family_id = output[i].family_id
                   /\ h.group = output[i].group
                   /\ h.tag = output[i].tag

\* A rerun over two eligible families or more, one in each group in the
\* history, one of them with another tag in the tag registry, has ended.
C26_Witness ==
    /\ pc = "done"
    /\ HistoryComplete
    /\ \E g, h \in Range(history.rows) :
           /\ g.group = "train"
           /\ h.group = "holdout"
           /\ g.tag = h.tag
           /\ h.tag # FreshTag(h.family_id)

-----------------------------------------------------------------------------
(* filter_indiv and its removals *)

\* C27: over a registry with unique subject IDs and any sample list,
\* filter_indiv raises no not-found error: every call it makes over its
\* snapshots names a subject or a family that is still there, and it
\* returns.
C27_FilterNeverRaises ==
    /\ pc # "raised"
    /\ pc = "filter" => filter_indiv(indiv, samples).err = ""

\* filter_indiv has returned after a removal in each of its loops: a
\* subject without data, a family without an affected subject among those
\* left, and a family with a subject outside the sample list.
C27_Witness ==
    /\ pc = "build"
    /\ samples.given
    /\ \E k \in 1..Len(indiv_in) : indiv_in[k].loaded = "No"
    /\ \E k \in 1..Len(indiv_in) :
           /\ indiv_in[k].loaded = "Yes"
           /\ ~HasLoadedAffected(indiv_in[k].fam)
    /\ \E k \in 1..Len(indiv_in) :
           /\ HasLoadedAffected(indiv_in[k].fam)
           /\ ~AllLoadedSampled(indiv_in[k].fam)

-----------------------------------------------------------------------------
(* The registry under removals *)

\* No subject ID is on two rows of the registry.
UniqueSubjects(df) ==
    \A i, j \in 1..Len(df) : df[i].id = df[j].id => i = j

\* C28: from a registry with unique subject IDs, whatever remove_subject
\* and remove_family calls succeed or fail, get_subjects() never lists a
\* subject twice, and no step adds a subject to it.
C28_UniqueAndShrinking ==
    /\ [](UniqueSubjects(indiv))
    /\ [][Range(get_subjects(indiv')) \subseteq Range(get_subjects(indiv))]_vars

\* A removal has failed after one that succeeded, with subjects left.
C28_Witness ==
    /\ pc = "raised"
    /\ result.op \in {"remove_subject", "remove_family"}
    /\ Len(indiv) < Len(indiv_in)
    /\ Len(indiv) >= 2

-----------------------------------------------------------------------------
(* The empty restriction *)

\* C29: with the empty list for families_to_write the pedigree file has no
\* line and the HPO and label objects have no key; with None the pedigree
\* file has a line for every subject, the HPO object a key for every
\* subject, and the label object a key for every family that has a variant
\* with a tag left by tags_to_write.
C29_EmptyListIsNotNone ==
    pc = "wrote" =>
        /\ (written.families.given /\ written.families.items = {}) =>
               DOMAIN written.content = {}
        /\ ~written.families.given =>
               CASE written.kind = "pedigree" ->
                        /\ Len(written.content) = Len(indiv)
                        /\ \A i \in 1..Len(indiv) :
                               written.content[i][2] = indiv[i].id
                 [] written.kind = "hpo" ->
                        DOMAIN written.content = {indiv[i].id : i \in 1..Len(indiv)}
                 [] written.kind = "labels" ->
                        DOMAIN written.content
                            = {tags[i].family :
                                   i \in {j \in 1..Len(tags) :
                                            Restricted(tags[j].family,
                                                       tags[j].variant) # <<>>}}

\* A writer with the empty list has written nothing of a registry that a
\* writer without a list writes something of: subjects for the pedigree and
\* HPO files, a row with a tag the tag list leaves for the labels.
C29_Witness ==
    /\ pc = "wrote"
    /\ written.families.given
    /\ written.families.items = {}
    /\ DOMAIN written.content = {}
    /\ \/ written.kind \in {"pedigree", "hpo"} /\ Len(indiv) >= 2
       \/ /\ written.kind = "labels"
          /\ \E i \in 1..Len(tags) :
                 Restricted(tags[i].family, tags[i].variant) # <<>>

-----------------------------------------------------------------------------
(* The highest-precedence tag and the order of the rows *)

\* The ways of listing n rows, each once or more, in any order, in up to
\* twice as many rows: the row that each place takes.
Rearrangements(n) ==
    {p \in UNION {[1..k -> 1..n] : k \in n..(2 * n)} : Range(p) = 1..n}

\* The table that takes its rows from tdf in the way p.
Rearranged(tdf, p) == [i \in 1..Len(p) |-> tdf[p[i]]]

\* The table of a tag export that holds the rows.
Export(rows) == [cols |-> {"family", "variant", "tags"}, rows |-> rows]

\* C30: get_highest_precedence_tag gives the same tag for a family when the
\* rows of the tag table are reordered or repeated; parsing the same export
\* twice keeps every row twice and gives the same tag too.
C30_TagOfTheSetOfTags ==
    (pc = "returned" /\ result.op = "get_highest_precedence_tag") =>
        /\ \A p \in Rearrangements(Len(tags)) :
               get_highest_precedence_tag(Rearranged(tags, p), result.arg)
                   = result.val
        /\ LET twice == SeqrTags_parse(<<Export(tags), Export(tags)>>)
           IN  tags # <<>> =>
                   /\ twice.err = ""
                   /\ twice.val = tags \o tags
                   /\ get_highest_precedence_tag(twice.val, result.arg)
                          = result.val

\* The tag of a family has been asked for whose rows differ in their tags,
\* the last of them without the tag returned.
C30_Witness ==
    /\ pc = "returned"
    /\ result.op = "get_highest_precedence_tag"
    /\ ~isna(result.val)
    /\ \E i, j \in 1..Len(tags) :
           /\ i < j
           /\ tags[i].family = result.arg
           /\ tags[j].family = result.arg
           /\ \A k \in (j + 1)..Len(tags) : tags[k].family # result.arg
           /\ result.val \in _get_tags_for_family(<<tags[i]>>, result.arg)
           /\ result.val \notin _get_tags_for_family(<<tags[j]>>, result.arg)

=============================================================================
